---- MODULE Spec2Model ----
(***************************************************************************)
(* vergen (src/vergen/vergen.go): CreateFile runs three git commands       *)
(* through runGitSingleLineReturn, decides whether the tree is dirty and   *)
(* writes the version file with writeVersionFile.                          *)
(*                                                                         *)
(* Go strings are sequences of one-character strings, so that TrimSpace,   *)
(* Split and Contains are computed character by character.                 *)
(* File names in listings and ignore lists are short: "v" stands for the   *)
(* generated version.go, "a" for any other changed file.                   *)
(***************************************************************************)
EXTENDS Integers, Sequences, FiniteSets, TLC

VARIABLES
    DirtyString,        \* package variable, line 22
    IgnoreFiles,        \* package variable, line 28
    filename,           \* CreateFile's argument: <<directory, base name>>
    dirs,               \* file system: the directories that exist ("." always does)
    file,               \* file system: the file at filename
    pc,                 \* CreateFile's position
    version, hash, diffIndex, uncommittedChanges, err,   \* CreateFile's locals
    ret,                \* CreateFile's returned error
    rpc,                \* runGitSingleLineReturn's position
    proc,               \* cmd.Process and the state of the external process
    timer,              \* the time.AfterFunc timer of the current command
    out, perr,          \* what cmd.CombinedOutput will return
    res,                \* history: per command, what CombinedOutput and the runner returned
    log,                \* history: the steps of the current call, in order
    fs0,                \* history: the file system when the current call began
    io                  \* history: the outcome of the renderer's system calls

vars == <<DirtyString, IgnoreFiles, filename, dirs, file, pc, version, hash,
          diffIndex, uncommittedChanges, err, ret, rpc, proc, timer, out, perr,
          res, log, fs0, io>>

config == <<DirtyString, IgnoreFiles, filename>>
fsys   == <<dirs, file>>
locals == <<version, hash, diffIndex, uncommittedChanges, err>>
runner == <<rpc, proc, timer, out, perr>>

----------------------------------------------------------------------------
(* Bounds of the model *)

\* longest raw diff listing drawn in SpecDirty
MaxLen == 3
\* longest ignore list drawn in SpecDirty
MaxIgnore == 2

----------------------------------------------------------------------------
(* Constants of the program *)

DefaultPkgName == "version"
DefaultDirtyString == <<"+">>
DefaultIgnoreFiles == << <<"v">> >>
FallbackVersion == <<"0", ".", "1", ".", "0">>

----------------------------------------------------------------------------
(* strings *)

IsSpace(c) == c \in {" ", "\n"}

RECURSIVE TrimLeft(_)
TrimLeft(s) ==
    IF s # <<>> /\ IsSpace(Head(s)) THEN TrimLeft(Tail(s)) ELSE s

RECURSIVE TrimRight(_)
TrimRight(s) ==
    IF s # <<>> /\ IsSpace(s[Len(s)]) THEN TrimRight(SubSeq(s, 1, Len(s) - 1)) ELSE s

TrimSpace(s) == TrimRight(TrimLeft(s))

RECURSIVE SplitFrom(_, _, _)
SplitFrom(s, i, cur) ==
    IF i > Len(s) THEN <<cur>>
    ELSE IF s[i] = "\n" THEN <<cur>> \o SplitFrom(s, i + 1, <<>>)
    ELSE SplitFrom(s, i + 1, Append(cur, s[i]))

\* strings.Split(s, "\n")
Split(s) == SplitFrom(s, 1, <<>>)

\* strings.Contains(s, sub)
Contains(s, sub) ==
    \E i \in 1..(Len(s) - Len(sub) + 1) : SubSeq(s, i, i + Len(sub) - 1) = sub

BoolStr(b) == IF b THEN <<"t", "r", "u", "e">> ELSE <<"f", "a", "l", "s", "e">>

----------------------------------------------------------------------------
(* errors *)

Nil == [op |-> "nil", msg |-> "", wrapped |-> FALSE]
CmdError(c, m) == [op |-> c, msg |-> m, wrapped |-> FALSE]
IOError(o) == [op |-> o, msg |-> "io", wrapped |-> FALSE]

\* errors.New("Could not run 'git rev-parse HEAD' to get commit hash. Error: " + err.Error())
HashError(e) == [op |-> e.op, msg |-> e.msg, wrapped |-> TRUE]

----------------------------------------------------------------------------
(* the external world *)

Cmds == {"tag", "hash", "diff"}

\* what a command prints when it exits with status 0
OkOutputs(c) ==
    CASE c = "tag"  -> {<<"v", "1", "\n">>, <<" ", "v", "2", "\n">>}
      [] c = "hash" -> {<<"a", "b", "\n">>, <<"c", "d", "\n">>}
      [] c = "diff" -> {<<>>, <<"v", "\n">>, <<"v", "\n", "a", "\n">>}

\* what CombinedOutput has captured of a command that fails or is killed
FailOutputs(c) ==
    CASE c = "diff" -> {<<>>, <<"a", "\n">>}
      [] OTHER      -> {<<"f", "\n">>}

Filenames == {<<DefaultPkgName, "version.go">>, <<"out", "v.go">>}
DirOf(f) == f[1]

Absent == [exists |-> FALSE, text |-> <<>>]
Holding(t) == [exists |-> TRUE, text |-> t]
OldText == << <<"o", "l", "d">> >>

NoRes == [ran |-> FALSE, out |-> <<>>, val |-> <<>>, err |-> Nil]
NoIO == [mkdir |-> "none", create |-> "none", write |-> "none"]

----------------------------------------------------------------------------
(* runGitSingleLineReturn *)

\* a runner that hands back the captured output of a failed command too
RunResultKeepsOutput(o, e) == [val |-> TrimSpace(o), err |-> e]

\* lines 115-121: from CombinedOutput's (out, err) to the runner's (result, err)
RunResult(o, e) ==
    IF e # Nil THEN [val |-> <<>>, err |-> e]
    ELSE [val |-> TrimSpace(o), err |-> Nil]

\* lines 111-113: build the command and start the kill timer
StartCmd ==
    /\ pc \in Cmds
    /\ rpc = "none"
    /\ rpc' = "armed"
    /\ proc' = "nil"
    /\ timer' = "armed"
    /\ out' = <<>>
    /\ perr' = Nil
    /\ log' = Append(log, pc)
    /\ UNCHANGED <<config, fsys, pc, locals, ret, res, fs0, io>>

\* line 114, cmd.Start succeeds: cmd.Process is set and the process runs
SpawnOk ==
    /\ pc \in Cmds
    /\ rpc = "armed"
    /\ rpc' = "waiting"
    /\ proc' = "running"
    /\ UNCHANGED <<config, fsys, pc, locals, ret, timer, out, perr, res, log, fs0, io>>

\* line 114, cmd.Start fails: cmd.Process stays nil, CombinedOutput returns the error
SpawnFail ==
    /\ pc \in Cmds
    /\ rpc = "armed"
    /\ rpc' = "failed"
    /\ perr' = CmdError(pc, "exec")
    /\ UNCHANGED <<config, fsys, pc, locals, ret, proc, timer, out, res, log, fs0, io>>

\* the external process ends by itself, with status 0 or not
ProcExit ==
    /\ pc \in Cmds
    /\ proc = "running"
    /\ proc' = "exited"
    /\ \/ \E o \in OkOutputs(pc) : out' = o /\ perr' = Nil
       \/ \E o \in FailOutputs(pc) : out' = o /\ perr' = CmdError(pc, "exit status")
    /\ UNCHANGED <<config, fsys, pc, locals, ret, rpc, timer, res, log, fs0, io>>

\* The timer's expiry and its function's read of cmd.Process are one step.  Timeout
\* is any duration, so the expiry may come at any moment while the timer is armed.
\* A panic in the timer's goroutine ends the program: no step follows pc = "panic".

\* line 113, the timer expires and its function calls cmd.Process.Kill()
\* while cmd.Process is still nil: a nil dereference, the program panics
TimerPanic ==
    /\ pc \in Cmds
    /\ timer = "armed"
    /\ proc = "nil"
    /\ timer' = "fired"
    /\ pc' = "panic"
    /\ UNCHANGED <<config, fsys, locals, ret, rpc, proc, out, perr, res, log, fs0, io>>

\* line 113, the timer expires while the process runs: the process is killed
TimerKill ==
    /\ pc \in Cmds
    /\ timer = "armed"
    /\ proc = "running"
    /\ timer' = "fired"
    /\ proc' = "killed"
    /\ \E o \in FailOutputs(pc) : out' = o
    /\ perr' = CmdError(pc, "signal: killed")
    /\ UNCHANGED <<config, fsys, pc, locals, ret, rpc, res, log, fs0, io>>

\* line 113, the timer expires after the process ended and before timer.Stop():
\* Kill() finds the process finished and does nothing
TimerLate ==
    /\ pc \in Cmds
    /\ timer = "armed"
    /\ proc = "exited"
    /\ timer' = "fired"
    /\ UNCHANGED <<config, fsys, pc, locals, ret, rpc, proc, out, perr, res, log, fs0, io>>

\* line 114 returns: the process has ended, or was never spawned
WaitOver == rpc = "failed" \/ (rpc = "waiting" /\ proc \in {"exited", "killed"})

\* lines 115-121 for command c: stop the timer, hand the result to CreateFile
RunReturn(c) ==
    /\ pc = c
    /\ WaitOver
    /\ rpc' = "none"
    /\ timer' = "stopped"
    /\ res' = [res EXCEPT ![c] = [ran |-> TRUE, out |-> out,
                                  val |-> RunResult(out, perr).val,
                                  err |-> RunResult(out, perr).err]]
    /\ log' = Append(log, "ret")
    /\ UNCHANGED <<proc, out, perr>>

----------------------------------------------------------------------------
(* dirty detection, lines 78-96 *)

\* lines 78-81
DiffIndexLines(d) == IF TrimSpace(d) # <<>> THEN Split(TrimSpace(d)) ELSE <<>>

\* lines 86-91: the number of IgnoreFiles entries that line v contains
RECURSIVE Matches(_, _, _)
Matches(v, ignore, j) ==
    IF j > Len(ignore) THEN 0
    ELSE (IF Contains(v, ignore[j]) THEN 1 ELSE 0) + Matches(v, ignore, j + 1)

\* a loop that takes a line for changed as soon as one entry does not match it
RECURSIVE UncommittedAnyMiss(_, _, _)
UncommittedAnyMiss(lines, ignore, i) ==
    IF i > Len(lines) THEN FALSE
    ELSE IF Matches(lines[i], ignore, 1) < Len(ignore) \/ ignore = <<>> THEN TRUE
    ELSE UncommittedAnyMiss(lines, ignore, i + 1)

\* lines 83-96: the loop over the lines, left at the first line with no match
RECURSIVE Uncommitted(_, _, _)
Uncommitted(lines, ignore, i) ==
    IF i > Len(lines) THEN FALSE
    ELSE IF Matches(lines[i], ignore, 1) = 0 THEN TRUE
    ELSE Uncommitted(lines, ignore, i + 1)

----------------------------------------------------------------------------
(* writeVersionFile *)

\* a template that prints the dirty flag where the clean flag belongs
RenderDirtyFlag(data) ==
    << <<DefaultPkgName>>, data.describeTags, data.commit, BoolStr(data.dirty) >>

\* lines 135-142: the template's four slots, in order
Render(data) ==
    << <<DefaultPkgName>>, data.describeTags, data.commit, BoolStr(~data.dirty) >>

----------------------------------------------------------------------------
(* CreateFile *)

\* line 56: CreateFile(filename) is entered
Call ==
    /\ pc \in {"idle", "done"}
    /\ pc' = "tag"
    /\ version' = <<>>
    /\ hash' = <<>>
    /\ diffIndex' = <<>>
    /\ uncommittedChanges' = FALSE
    /\ err' = Nil
    /\ ret' = Nil
    /\ res' = [c \in Cmds |-> NoRes]
    /\ log' = <<>>
    /\ fs0' = <<dirs, file>>
    /\ io' = NoIO
    /\ rpc' = "none" /\ proc' = "nil" /\ timer' = "unset"
    /\ out' = <<>> /\ perr' = Nil
    /\ UNCHANGED <<config, fsys>>

\* a tag lookup whose failure ends CreateFile (the return commented out at 61-62)
TagReturnAbort ==
    /\ RunReturn("tag")
    /\ err' = RunResult(out, perr).err
    /\ version' = RunResult(out, perr).val
    /\ IF RunResult(out, perr).err # Nil
       THEN pc' = "done" /\ ret' = HashError(RunResult(out, perr).err)
       ELSE pc' = "hash" /\ ret' = ret
    /\ UNCHANGED <<config, fsys, hash, diffIndex, uncommittedChanges, fs0, io>>

\* lines 58-63: 'git describe --tags' returns; a failure gives the fallback version
TagReturn ==
    /\ RunReturn("tag")
    /\ err' = RunResult(out, perr).err
    /\ version' = IF RunResult(out, perr).err # Nil THEN FallbackVersion
                  ELSE RunResult(out, perr).val
    /\ pc' = "hash"
    /\ UNCHANGED <<config, fsys, hash, diffIndex, uncommittedChanges, ret, fs0, io>>

\* a hash lookup whose error is dropped like the diff lookup's
HashReturnNoAbort ==
    /\ RunReturn("hash")
    /\ err' = RunResult(out, perr).err
    /\ hash' = RunResult(out, perr).val
    /\ pc' = "diff"
    /\ UNCHANGED <<config, fsys, version, diffIndex, uncommittedChanges, ret, fs0, io>>

\* lines 66-70: 'git rev-parse HEAD' returns; a failure ends CreateFile
HashReturn ==
    /\ RunReturn("hash")
    /\ err' = RunResult(out, perr).err
    /\ hash' = RunResult(out, perr).val
    /\ IF RunResult(out, perr).err # Nil
       THEN pc' = "done" /\ ret' = HashError(RunResult(out, perr).err)
       ELSE pc' = "diff" /\ ret' = ret
    /\ UNCHANGED <<config, fsys, version, diffIndex, uncommittedChanges, fs0, io>>

\* a diff lookup that is run again when it fails
DiffReturnRetry ==
    /\ RunReturn("diff")
    /\ err' = RunResult(out, perr).err
    /\ diffIndex' = RunResult(out, perr).val
    /\ pc' = IF RunResult(out, perr).err # Nil THEN "diff" ELSE "detect"
    /\ UNCHANGED <<config, fsys, version, hash, uncommittedChanges, ret, fs0, io>>

\* lines 73-77: 'git diff-index HEAD' returns; the error built at line 75 is dropped
DiffReturn ==
    /\ RunReturn("diff")
    /\ err' = RunResult(out, perr).err
    /\ diffIndex' = RunResult(out, perr).val
    /\ pc' = "detect"
    /\ UNCHANGED <<config, fsys, version, hash, uncommittedChanges, ret, fs0, io>>

\* lines 78-96
Detect ==
    /\ pc = "detect"
    /\ uncommittedChanges' = Uncommitted(DiffIndexLines(diffIndex), IgnoreFiles, 1)
    /\ pc' = "suffix"
    /\ log' = Append(log, "detect")
    /\ UNCHANGED <<config, fsys, version, hash, diffIndex, err, ret, runner, res, fs0, io>>

\* lines 97-99
Suffix ==
    /\ pc = "suffix"
    /\ version' = IF uncommittedChanges THEN version \o DirtyString ELSE version
    /\ pc' = "write"
    /\ log' = Append(log, "suffix")
    /\ UNCHANGED <<config, fsys, hash, diffIndex, uncommittedChanges, err, ret, runner,
                   res, fs0, io>>

\* a writer that opens the file for appending instead of truncating it
WrittenAppend(old, text, wr, k) ==
    IF wr THEN Holding(old.text \o text) ELSE Holding(old.text \o SubSeq(text, 1, k))

\* lines 129-145: os.Create truncates the file, file.Write puts the text in it
\* (wr) or fails, having put in nothing or the first line (k)
Written(old, text, wr, k) ==
    IF wr THEN Holding(text) ELSE Holding(SubSeq(text, 1, k))

\* lines 105-106 and 125-146: writeVersionFile and CreateFile's return.
\* mk, cr, wr: whether os.Mkdir, os.Create and file.Write succeed; k: whether a
\* failed Write has put nothing or the template's first line in the file.
WriteFile ==
    /\ pc = "write"
    /\ \E mk \in BOOLEAN, cr \in BOOLEAN, wr \in BOOLEAN, k \in 0..1 :
         LET text    == Render([describeTags |-> version, commit |-> hash,
                                dirty |-> uncommittedChanges])
             missing == DefaultPkgName \notin dirs
             dirs1   == IF missing /\ mk THEN dirs \cup {DefaultPkgName} ELSE dirs
             created == cr /\ DirOf(filename) \in dirs1 \cup {"."}
         IN  /\ dirs' = dirs1
             /\ file' = IF ~created THEN file ELSE Written(file, text, wr, k)
             /\ err' = IF ~created THEN IOError("create")
                       ELSE IF wr THEN Nil ELSE IOError("write")
             /\ ret' = err'
             /\ io' = [mkdir  |-> IF ~missing THEN "none" ELSE IF mk THEN "ok" ELSE "failed",
                       create |-> IF created THEN "ok" ELSE "failed",
                       write  |-> IF ~created THEN "none" ELSE IF wr THEN "ok" ELSE "failed"]
    /\ pc' = "done"
    /\ log' = Append(log, "write")
    /\ UNCHANGED <<config, version, hash, diffIndex, uncommittedChanges, runner, res, fs0>>

----------------------------------------------------------------------------
(* specifications *)

DirtyStrings == {DefaultDirtyString, <<"-", "d">>}
IgnoreLists == {DefaultIgnoreFiles, <<>>}

\* the process before its first call of CreateFile
Init ==
    /\ DirtyString \in DirtyStrings
    /\ IgnoreFiles \in IgnoreLists
    /\ filename \in Filenames
    /\ dirs \in SUBSET {DefaultPkgName, "out"}
    /\ file \in {Absent, Holding(<<>>), Holding(OldText)}
    /\ file.exists => DirOf(filename) \in dirs \cup {"."}
    /\ pc = "idle"
    /\ version = <<>> /\ hash = <<>> /\ diffIndex = <<>>
    /\ uncommittedChanges = FALSE
    /\ err = Nil /\ ret = Nil
    /\ rpc = "none" /\ proc = "nil" /\ timer = "unset"
    /\ out = <<>> /\ perr = Nil
    /\ res = [c \in Cmds |-> NoRes]
    /\ log = <<>>
    /\ fs0 = <<dirs, file>>
    /\ io = NoIO

Next ==
    \/ Call
    \/ StartCmd
    \/ SpawnOk
    \/ SpawnFail
    \/ ProcExit
    \/ TimerPanic
    \/ TimerKill
    \/ TimerLate
    \/ TagReturn
    \/ HashReturn
    \/ DiffReturn
    \/ Detect
    \/ Suffix
    \/ WriteFile

Spec == Init /\ [][Next]_vars

\* The diff lookup of one call, from the moment 'git diff-index HEAD' has ended
\* having printed any listing of up to MaxLen characters, under any ignore list
\* of up to MaxIgnore entries.
Alphabet == {"a", "v", " ", "\n"}
Listings == UNION {[1..n -> Alphabet] : n \in 0..MaxLen}
IgnoreEntries == {<<"v">>, <<"a", "v">>, <<>>}
AllIgnoreLists == UNION {[1..n -> IgnoreEntries] : n \in 0..MaxIgnore}

InitDirty ==
    /\ DirtyString \in DirtyStrings
    /\ IgnoreFiles \in AllIgnoreLists
    /\ filename = <<DefaultPkgName, "version.go">>
    /\ dirs = {DefaultPkgName}
    /\ file = Absent
    /\ pc = "diff"
    /\ version = <<"v", "1">> /\ hash = <<"a", "b">> /\ diffIndex = <<>>
    /\ uncommittedChanges = FALSE
    /\ err = Nil /\ ret = Nil
    /\ rpc = "waiting" /\ proc = "exited" /\ timer = "armed"
    /\ out \in Listings
    /\ perr \in {Nil, CmdError("diff", "exit status")}
    /\ res = [c \in Cmds |->
                IF c = "tag" THEN [ran |-> TRUE, out |-> <<"v", "1", "\n">>,
                                   val |-> <<"v", "1">>, err |-> Nil]
                ELSE IF c = "hash" THEN [ran |-> TRUE, out |-> <<"a", "b", "\n">>,
                                         val |-> <<"a", "b">>, err |-> Nil]
                ELSE NoRes]
    /\ log = <<"tag", "ret", "hash", "ret", "diff">>
    /\ fs0 = <<dirs, file>>
    /\ io = NoIO

NextDirty ==
    \/ DiffReturn
    \/ Detect
    \/ Suffix

SpecDirty == InitDirty /\ [][NextDirty]_vars

\* The program's own steps are taken when they can be, and a timer that is armed
\* expires unless it is stopped.  The external processes and the caller owe nothing.
Fairness ==
    /\ WF_vars(StartCmd) /\ WF_vars(SpawnOk \/ SpawnFail)
    /\ WF_vars(TimerPanic \/ TimerKill \/ TimerLate)
    /\ WF_vars(TagReturn) /\ WF_vars(HashReturn) /\ WF_vars(DiffReturn)
    /\ WF_vars(Detect) /\ WF_vars(Suffix) /\ WF_vars(WriteFile)

FairSpec == Spec /\ Fairness

----------------------------------------------------------------------------
(* The properties *)

Done == pc = "done"
Failed(c) == res[c].ran /\ res[c].err # Nil
Succeeded(c) == res[c].ran /\ res[c].err = Nil
Wrote == Done /\ io # NoIO /\ ret = Nil

\* the tag description the call works with
TagDescription == IF Failed("tag") THEN FallbackVersion ELSE res["tag"].val

\* C1: when the hash lookup fails, CreateFile returns a non-nil error, the file
\* system is as it was when the call began, and neither the diff lookup nor the
\* renderer is reached, whatever the tag lookup did.
C1_HashFailureAborts ==
    Failed("hash") =>
        /\ Done
        /\ ret # Nil
        /\ <<dirs, file>> = fs0
        /\ ~res["diff"].ran
        /\ io = NoIO
        /\ log = <<"tag", "ret", "hash", "ret">>

C1_Witness ==
    /\ Done /\ Failed("hash") /\ Succeeded("tag")
    /\ file = Holding(OldText)

\* C2: when the tag lookup fails and the hash lookup succeeds, the call goes on to
\* the renderer, the version written is "0.1.0", followed by DirtyString exactly
\* when the tree is dirty, and the tag lookup's error is never the error returned.
C2_TagFailureFallsBack ==
    Failed("tag") =>
        /\ ret.op # "tag"
        /\ pc \in {"hash", "diff", "detect", "suffix", "write", "done", "panic"}
        /\ Done /\ Succeeded("hash") => io # NoIO
        /\ Wrote =>
             file.text[2] = IF uncommittedChanges THEN FallbackVersion \o DirtyString
                            ELSE FallbackVersion

C2_Witness ==
    /\ Wrote /\ Failed("tag") /\ uncommittedChanges
    /\ file.text[2] = FallbackVersion \o DirtyString

\* what C3 means by a listing, stated without the code's helpers
C3_Trimmed(l) ==
    LET keep == {i \in 1..Len(l) : l[i] \notin {" ", "\n"}}
    IN  IF keep = {} THEN <<>>
        ELSE SubSeq(l, CHOOSE i \in keep : \A j \in keep : i <= j,
                       CHOOSE i \in keep : \A j \in keep : i >= j)

C3_Lines(t) ==
    {SubSeq(t, i, j) : <<i, j>> \in
        {w \in (1..Len(t) + 1) \X (0..Len(t)) :
            /\ w[1] <= w[2] + 1
            /\ (w[1] = 1 \/ t[w[1] - 1] = "\n")
            /\ (w[2] = Len(t) \/ t[w[2] + 1] = "\n")
            /\ \A k \in w[1]..w[2] : t[k] # "\n"}}

C3_IsSubstring(sub, s) ==
    \E pre \in 0..Len(s) :
        /\ pre + Len(sub) <= Len(s)
        /\ \A k \in 1..Len(sub) : s[pre + k] = sub[k]

C3_Dirty(l, ignore) ==
    /\ C3_Trimmed(l) # <<>>
    /\ \E line \in C3_Lines(C3_Trimmed(l)) :
         \A j \in 1..Len(ignore) : ~C3_IsSubstring(ignore[j], line)

\* C3: the dirty flag is true exactly when the trimmed listing is not empty and
\* one of its lines contains no IgnoreFiles entry as a substring; so an empty or
\* whitespace-only listing is clean, a listing whose lines all contain an ignored
\* entry is clean, and a listing with a line that matches none is dirty.
C3_DirtyIffUnignoredLine ==
    pc \in {"suffix", "write"} =>
        /\ uncommittedChanges = C3_Dirty(diffIndex, IgnoreFiles)
        /\ Succeeded("diff") => uncommittedChanges = C3_Dirty(res["diff"].out, IgnoreFiles)
        /\ (\A i \in 1..Len(res["diff"].out) : res["diff"].out[i] \in {" ", "\n"})
              => ~uncommittedChanges

C3_Witness ==
    /\ pc = "suffix" /\ Succeeded("diff") /\ uncommittedChanges
    /\ Len(IgnoreFiles) = 2
    /\ res["diff"].out = <<"v", "\n", "a">>
    /\ IgnoreFiles[1] = <<"a", "v">> /\ IgnoreFiles[2] = <<"v">>

\* C4: the file a successful CreateFile has written declares VgVersion = tag
\* description followed by DirtyString when dirty and the tag description alone
\* when clean, VgHash = the hash the hash lookup returned, VgClean = not dirty.
C4_FileDeclaresRecord ==
    Wrote =>
        /\ file.exists
        /\ Len(file.text) = 4
        /\ file.text[2] = IF uncommittedChanges THEN TagDescription \o DirtyString
                          ELSE TagDescription
        /\ file.text[3] = res["hash"].val
        /\ file.text[4] = IF uncommittedChanges THEN <<"f", "a", "l", "s", "e">>
                          ELSE <<"t", "r", "u", "e">>

C4_Witness ==
    /\ Wrote /\ Succeeded("tag") /\ uncommittedChanges
    /\ res["diff"].out = <<"v", "\n", "a", "\n">>
    /\ file.text[2] = <<"v", "1">> \o DirtyString
    /\ file.text[3] = <<"a", "b">>
    /\ file.text[4] = <<"f", "a", "l", "s", "e">>

\* C5 as claimed: when the diff lookup fails its error is dropped, the call goes
\* on to dirty detection and the renderer, and dirty detection is applied to the
\* output the failed command captured.
C5_Claimed ==
    Failed("diff") =>
        /\ ret.op # "diff"
        /\ pc \in {"detect", "suffix", "write", "done"}
        /\ Done => io # NoIO
        /\ pc \in {"suffix", "write", "done"} =>
             uncommittedChanges = C3_Dirty(res["diff"].out, IgnoreFiles)

\* C5 as amended: when the diff lookup fails its error is dropped, the call goes
\* on to dirty detection and the renderer, and dirty detection is applied to the
\* empty listing whatever the failed command captured: the tree counts as clean.
C5_FailedDiffIsClean ==
    Failed("diff") =>
        /\ ret.op # "diff"
        /\ pc \in {"detect", "suffix", "write", "done"}
        /\ Done => io # NoIO
        /\ diffIndex = <<>>
        /\ ~uncommittedChanges
        /\ Wrote => file.text[2] = TagDescription /\ file.text[4] = <<"t", "r", "u", "e">>

C5_Witness ==
    /\ Wrote /\ Failed("diff")
    /\ res["diff"].out = <<"a", "\n">>
    /\ IgnoreFiles = DefaultIgnoreFiles

\* C6 as claimed: the renderer creates the directory of the output path when it
\* is absent, and a failed directory creation, file creation or write makes
\* CreateFile return an error.
C6_Claimed ==
    Done /\ io # NoIO =>
        /\ (DirOf(filename) \notin fs0[1] /\ io.mkdir # "failed") => DirOf(filename) \in dirs
        /\ (io.mkdir = "failed" \/ io.create = "failed" \/ io.write = "failed") => ret # Nil

\* C7: whatever the file held before, after a successful CreateFile it holds the
\* rendered template of this call's record and nothing else.
C7_FileIsOverwritten ==
    Wrote =>
        file = [exists |-> TRUE,
                text |-> << <<DefaultPkgName>>, version, hash,
                            IF uncommittedChanges THEN <<"f", "a", "l", "s", "e">>
                            ELSE <<"t", "r", "u", "e">> >>]

C7_Witness ==
    /\ Wrote
    /\ fs0[2].exists /\ Len(fs0[2].text) = 4
    /\ fs0[2].text[2] # file.text[2]
    /\ fs0[2].text[3] # file.text[3]

Order == <<"tag", "ret", "hash", "ret", "diff", "ret", "detect", "suffix", "write">>

\* C8: the steps of a call are, in this order, tag lookup, hash lookup, diff
\* lookup, dirty detection, suffix, write; each command is started once at most
\* and only after the one before has returned; the write happens once at most,
\* after the three commands have returned and the hash lookup has succeeded.
C8_FixedOrder ==
    /\ Len(log) <= Len(Order)
    /\ log = SubSeq(Order, 1, Len(log))
    /\ rpc # "none" /\ pc \in Cmds => log[Len(log)] = pc
    /\ (\E i \in 1..Len(log) : log[i] = "write") =>
          /\ Succeeded("hash")
          /\ res["tag"].ran /\ res["diff"].ran
          /\ Done

C8_Witness ==
    /\ log = Order
    /\ Failed("tag") /\ Failed("diff") /\ ret # Nil

\* C9 as claimed: the timer is armed while the runner waits and is stopped when
\* the runner returns; a kill happens only on expiry and acts on a process that
\* has been spawned; a process killed while running makes the runner return an
\* error and the empty result.
C9_Claimed ==
    /\ rpc # "none" /\ pc \in Cmds => timer \in {"armed", "fired"}
    /\ rpc = "none" => timer \in {"unset", "stopped"}
    /\ proc = "killed" /\ rpc # "none" => timer = "fired"
    /\ \A c \in Cmds :
         res[c].ran /\ res[c].err.msg = "signal: killed" => res[c].val = <<>>
    /\ pc # "panic"

\* C10 as claimed: every call of CreateFile returns.
C10_Claimed == (pc = "tag") ~> Done

====
